---- MODULE Spec2Model ----
(***************************************************************************)
(* OrganizeFormat (src/organize/organizeformat.cpp): rendering of a file   *)
(* name from a format string and a song.                                   *)
(*                                                                         *)
(* A QString is a sequence of QChar.  A QChar is a one-character string;   *)
(* the characters outside Latin-1 printable ASCII that the model uses are  *)
(* named by their code point ("U+00E9", "U+4E2D", "U+0301").               *)
(* Positions (pos, capturedStart) are 0-based as in the code; the i-th     *)
(* character of a QString s (0-based) is s[i + 1].                         *)
(***************************************************************************)
EXTENDS Integers, Sequences, FiniteSets, TLC

VARIABLES
    format_,              \* OrganizeFormat::format_
    remove_problematic_,  \* OrganizeFormat::remove_problematic_
    remove_non_fat_,      \* OrganizeFormat::remove_non_fat_
    remove_non_ascii_,    \* OrganizeFormat::remove_non_ascii_
    allow_ascii_ext_,     \* OrganizeFormat::allow_ascii_ext_
    replace_spaces_,      \* OrganizeFormat::replace_spaces_
    song,                 \* argument of GetFilenameForSong: the Song's accessor values
    extension,            \* argument of GetFilenameForSong
    pc,                   \* position of the running GetFilenameForSong call
    stack,                \* activation records of ParseBlock, innermost last
    unique_filename,      \* local of GetFilenameForSong, written through have_tagdata
    filepath,             \* local of GetFilenameForSong
    result,               \* the returned GetFilenameForSongResult
    lookups,              \* history: the TagValue calls made so far, <<tag, value>>
    candidate             \* history: the filepath that the test of line 115 read

vars == <<format_, remove_problematic_, remove_non_fat_, remove_non_ascii_,
          allow_ascii_ext_, replace_spaces_, song, extension, pc, stack,
          unique_filename, filepath, result, lookups, candidate>>

config == <<remove_problematic_, remove_non_fat_, remove_non_ascii_,
            allow_ascii_ext_, replace_spaces_>>

-----------------------------------------------------------------------------
(* QChar                                                                   *)

LowerCase == <<"a","b","c","d","e","f","g","h","i","j","k","l","m",
               "n","o","p","q","r","s","t","u","v","w","x","y","z">>

UpperCase == <<"A","B","C","D","E","F","G","H","I","J","K","L","M",
               "N","O","P","Q","R","S","T","U","V","W","X","Y","Z">>

Range(s) == {s[i] : i \in 1..Len(s)}

Letters == Range(LowerCase) \cup Range(UpperCase)

\* the character class [a-zA-Z] of kTagPattern
IsLetter(c) == c \in Letters

IsDigit(c) == c \in {"0","1","2","3","4","5","6","7","8","9"}

\* QChar::isSpace, the class \s of QRegularExpression
IsSpace(c) == c \in {" ", "\t", "\n"}

\* QChar::toUpper
toUpper(c) ==
    IF c \in Range(LowerCase)
    THEN UpperCase[CHOOSE i \in 1..26 : LowerCase[i] = c]
    ELSE c

toLower(c) ==
    IF c \in Range(UpperCase)
    THEN LowerCase[CHOOSE i \in 1..26 : UpperCase[i] = c]
    ELSE c

\* the printable ASCII characters, code points 32..126 in order (the grave
\* accent, code point 96, is written by its code point)
AsciiTable ==
    <<" ","!","\"","#","$","%","&","'","(",")","*","+",",","-",".","/",
      "0","1","2","3","4","5","6","7","8","9",":",";","<","=",">","?",
      "@","A","B","C","D","E","F","G","H","I","J","K","L","M","N","O",
      "P","Q","R","S","T","U","V","W","X","Y","Z","[","\\","]","^","_",
      "U+0060","a","b","c","d","e","f","g","h","i","j","k","l","m","n","o",
      "p","q","r","s","t","u","v","w","x","y","z","{","|","}","~">>

\* QChar::unicode
unicode(c) ==
    CASE c = "U+00E9" -> 233
      [] c = "U+0301" -> 769
      [] c = "U+4E2D" -> 20013
      [] c = "\t" -> 9
      [] c = "\n" -> 10
      [] OTHER -> 31 + (CHOOSE i \in 1..Len(AsciiTable) : AsciiTable[i] = c)

\* QChar::decomposition: e-acute decomposes to e + combining acute; the
\* other characters of the model have no decomposition
decomposition(c) == IF c = "U+00E9" THEN <<"e", "U+0301">> ELSE <<>>

-----------------------------------------------------------------------------
(* QString                                                                 *)

\* QString::remove(QChar)
RemoveChar(s, ch) == SelectSeq(s, LAMBDA c : c # ch)

\* QString::contains(QChar)
contains(s, ch) == \E i \in 1..Len(s) : s[i] = ch

\* QString::trimmed
trimmed(s) ==
    LET keep == {i \in 1..Len(s) : ~IsSpace(s[i])}
    IN  IF keep = {} THEN <<>>
        ELSE LET first == CHOOSE i \in keep : \A j \in keep : i <= j
                 last  == CHOOSE i \in keep : \A j \in keep : j <= i
             IN  SubSeq(s, first, last)

RECURSIVE CollapseSpaces(_, _)
CollapseSpaces(t, i) ==
    IF i > Len(t) THEN <<>>
    ELSE IF IsSpace(t[i])
         THEN (IF i > 1 /\ IsSpace(t[i - 1]) THEN <<>> ELSE <<" ">>)
              \o CollapseSpaces(t, i + 1)
         ELSE <<t[i]>> \o CollapseSpaces(t, i + 1)

\* QString::simplified
simplified(s) == CollapseSpaces(trimmed(s), 1)

\* QString::replace(QRegularExpression("\\s"), "_")
ReplaceSpaces(s) == [i \in 1..Len(s) |-> IF IsSpace(s[i]) THEN "_" ELSE s[i]]

\* QString::replace(position, n, after), position 0-based
replace(s, position, n, after) ==
    SubSeq(s, 1, position) \o after \o SubSeq(s, position + n + 1, Len(s))

\* QString::lastIndexOf(ch) + 1: the 1-based index of the last ch, 0 if none
LastIndexOf(s, ch) ==
    LET at == {i \in 1..Len(s) : s[i] = ch}
    IN  IF at = {} THEN 0 ELSE CHOOSE i \in at : \A j \in at : j <= i

\* the 1-based index of the first ch, 0 if none
IndexOf(s, ch) ==
    LET at == {i \in 1..Len(s) : s[i] = ch}
    IN  IF at = {} THEN 0 ELSE CHOOSE i \in at : \A j \in at : i <= j

\* QString::split(sep), Qt::KeepEmptyParts
RECURSIVE split(_, _)
split(s, sep) ==
    LET k == IndexOf(s, sep)
    IN  IF k = 0 THEN <<s>>
        ELSE <<SubSeq(s, 1, k - 1)>> \o split(SubSeq(s, k + 1, Len(s)), sep)

\* QStringList::join(sep)
RECURSIVE join(_, _)
join(parts, sep) ==
    IF parts = <<>> THEN <<>>
    ELSE IF Len(parts) = 1 THEN parts[1]
    ELSE parts[1] \o <<sep>> \o join(Tail(parts), sep)

\* QString::section(sep, 0, -2): the fields from the first to the last but one
section_0_m2(s, sep) ==
    LET fields == split(s, sep)
    IN  join(SubSeq(fields, 1, Len(fields) - 1), sep)

Digits == <<"0","1","2","3","4","5","6","7","8","9">>

RECURSIVE NatToString(_)
NatToString(n) ==
    IF n < 10 THEN <<Digits[n + 1]>>
    ELSE NatToString(n \div 10) \o <<Digits[(n % 10) + 1]>>

\* QString::number(int), base 10
number(n) == IF n < 0 THEN <<"-">> \o NatToString(-n) ELSE NatToString(n)

\* C++ integer division: truncates towards zero
TruncDiv(a, b) == IF a >= 0 THEN a \div b ELSE -((-a) \div b)

-----------------------------------------------------------------------------
(* QFileInfo                                                               *)

\* QFileInfo::path: "" for an empty name, "." without a separator, "/" when
\* the only separator is the first character, else all before the last '/'
QFileInfo_path(f) ==
    LET k == LastIndexOf(f, "/")
    IN  IF f = <<>> THEN <<>>
        ELSE IF k = 0 THEN <<".">>
        ELSE IF k = 1 THEN <<"/">>
        ELSE SubSeq(f, 1, k - 1)

\* QFileInfo::fileName: all after the last '/'
QFileInfo_fileName(f) == SubSeq(f, LastIndexOf(f, "/") + 1, Len(f))

\* QFileInfo::completeBaseName: the file name up to its last '.'
QFileInfo_completeBaseName(f) ==
    LET n == QFileInfo_fileName(f)
        d == LastIndexOf(n, ".")
    IN  IF d = 0 THEN n ELSE SubSeq(n, 1, d - 1)

\* QFileInfo::suffix: the file name after its last '.'
QFileInfo_suffix(f) ==
    LET n == QFileInfo_fileName(f)
        d == LastIndexOf(n, ".")
    IN  IF d = 0 THEN <<>> ELSE SubSeq(n, d + 1, Len(n))

-----------------------------------------------------------------------------
(* utilities/filenameconstants.h, utilities/timeconstants.h,               *)
(* utilities/transliterate.h                                               *)

\* kInvalidDirCharactersRegex: the path separators
IsInvalidDirCharacter(c) == c \in {"/", "\\"}

\* kProblematicCharactersRegex
IsProblematicCharacter(c) == c \in {":", "?", "*", "\"", "<", ">", "|"}

\* kInvalidFatCharactersRegex: all but letters, digits and a few signs
IsInvalidFatCharacter(c) ==
    ~(\/ IsLetter(c)
      \/ IsDigit(c)
      \/ c \in {"!", "#", "$", "%", "&", "'", "(", ")", "-", "@", "^", "_",
                "U+0060", "{", "}", "~", "/", ".", " "})

\* kInvalidPrefixCharacters (kInvalidPrefixCharactersCount is its length)
kInvalidPrefixCharacters == <<".">>

kNsecPerSec == 1000000000

\* Utilities::Transliterate of one character: an ASCII approximation
TransliterateChar(c) ==
    CASE c = "U+00E9" -> <<"e">>
      [] c = "U+4E2D" -> <<"z", "h", "o", "n", "g">>
      [] OTHER -> <<c>>

RECURSIVE Transliterate(_)
Transliterate(s) ==
    IF s = <<>> THEN <<>>
    ELSE TransliterateChar(Head(s)) \o Transliterate(Tail(s))

-----------------------------------------------------------------------------
(* The tag names                                                           *)

t_title         == <<"t","i","t","l","e">>
t_album         == <<"a","l","b","u","m">>
t_artist        == <<"a","r","t","i","s","t">>
t_artistinitial == <<"a","r","t","i","s","t","i","n","i","t","i","a","l">>
t_albumartist   == <<"a","l","b","u","m","a","r","t","i","s","t">>
t_composer      == <<"c","o","m","p","o","s","e","r">>
t_track         == <<"t","r","a","c","k">>
t_disc          == <<"d","i","s","c">>
t_year          == <<"y","e","a","r">>
t_originalyear  == <<"o","r","i","g","i","n","a","l","y","e","a","r">>
t_genre         == <<"g","e","n","r","e">>
t_comment       == <<"c","o","m","m","e","n","t">>
t_length        == <<"l","e","n","g","t","h">>
t_bitrate       == <<"b","i","t","r","a","t","e">>
t_samplerate    == <<"s","a","m","p","l","e","r","a","t","e">>
t_bitdepth      == <<"b","i","t","d","e","p","t","h">>
t_extension     == <<"e","x","t","e","n","s","i","o","n">>
t_performer     == <<"p","e","r","f","o","r","m","e","r">>
t_grouping      == <<"g","r","o","u","p","i","n","g">>
t_lyrics        == <<"l","y","r","i","c","s">>

kKnownTags ==
    {t_title, t_album, t_artist, t_artistinitial, t_albumartist, t_composer,
     t_track, t_disc, t_year, t_originalyear, t_genre, t_comment, t_length,
     t_bitrate, t_samplerate, t_bitdepth, t_extension, t_performer,
     t_grouping, t_lyrics}

kUniqueTags == {t_title, t_track}

VariousArtists == <<"V","a","r","i","o","u","s"," ","A","r","t","i","s","t","s">>

-----------------------------------------------------------------------------
(* OrganizeFormat::TagValue                                                *)

\* value.remove(QRegularExpression("^the\\s+", CaseInsensitiveOption))
RemoveLeadingThe(v) ==
    IF /\ Len(v) >= 4
       /\ toLower(v[1]) = "t" /\ toLower(v[2]) = "h" /\ toLower(v[3]) = "e"
       /\ IsSpace(v[4])
    THEN LET rest == {i \in 4..Len(v) : ~IsSpace(v[i])}
         IN  IF rest = {} THEN <<>>
             ELSE SubSeq(v, CHOOSE i \in rest : \A j \in rest : i <= j, Len(v))
    ELSE v

\* the if / else-if chain on the tag name: the song's field, as a QString
FieldValue(tag, s) ==
    CASE tag = t_title -> s.title
      [] tag = t_album -> s.album
      [] tag = t_artist -> s.artist
      [] tag = t_composer -> s.composer
      [] tag = t_performer -> s.performer
      [] tag = t_grouping -> s.grouping
      [] tag = t_lyrics -> s.lyrics
      [] tag = t_genre -> s.genre
      [] tag = t_comment -> s.comment
      [] tag = t_year -> number(s.year)
      [] tag = t_originalyear -> number(s.effective_originalyear)
      [] tag = t_track -> number(s.track)
      [] tag = t_disc -> number(s.disc)
      [] tag = t_length -> number(TruncDiv(s.length_nanosec, kNsecPerSec))
      [] tag = t_bitrate -> number(s.bitrate)
      [] tag = t_samplerate -> number(s.samplerate)
      [] tag = t_bitdepth -> number(s.bitdepth)
      [] tag = t_extension -> QFileInfo_suffix(s.url)
      [] tag = t_artistinitial ->
            LET v == trimmed(s.effective_albumartist)
            IN  IF v = <<>> THEN <<>>
                ELSE <<toUpper(RemoveLeadingThe(v)[1])>>
      [] tag = t_albumartist ->
            IF s.is_compilation THEN VariousArtists ELSE s.effective_albumartist
      [] OTHER -> <<>>

\* "0" and "-1" mean that the field is not set
SuppressSentinel(value) ==
    IF value = <<"0">> \/ value = <<"-", "1">> THEN <<>> ELSE value

\* single-digit track numbers get a 0 in front
PadTrack(tag, value) ==
    IF tag = t_track /\ Len(value) = 1 THEN <<"0">> \o value ELSE value

TagValue(tag, s) ==
    LET value   == PadTrack(tag, SuppressSentinel(FieldValue(tag, s)))
        nodir   == SelectSeq(value, LAMBDA c : ~IsInvalidDirCharacter(c))
        nodots  == IF remove_problematic_ THEN RemoveChar(nodir, ".") ELSE nodir
    IN  trimmed(nodots)

-----------------------------------------------------------------------------
(* kBlockPattern, kTagPattern: QRegularExpression::match(block, pos)       *)

Min(S) == CHOOSE x \in S : \A y \in S : x <= y

\* the length of the match of "\{([^{}]+)\}" that starts at s, 0 if none
BlockMatchLength(block, s) ==
    LET closing == {e \in (s + 3)..Len(block) :
                        /\ block[e] = "}"
                        /\ \A k \in (s + 2)..(e - 1) : block[k] \notin {"{", "}"}}
    IN  IF s + 1 <= Len(block) /\ block[s + 1] = "{" /\ closing # {}
        THEN Min(closing) - s
        ELSE 0

\* the starts (>= pos) at which kBlockPattern matches
BlockMatchStarts(block, pos) ==
    {s \in pos..(Len(block) - 1) : BlockMatchLength(block, s) > 0}

\* the length of the match of "\%([a-zA-Z]*)" that starts at s, 0 if none
TagMatchLength(block, s) ==
    IF s + 1 <= Len(block) /\ block[s + 1] = "%"
    THEN LET stop == {e \in (s + 2)..Len(block) : ~IsLetter(block[e])}
         IN  IF stop = {} THEN Len(block) - s ELSE Min(stop) - 1 - s
    ELSE 0

\* the starts (>= pos) at which kTagPattern matches
TagMatchStarts(block, pos) ==
    {s \in pos..(Len(block) - 1) : TagMatchLength(block, s) > 0}

\* re_match.captured(1) of a match at s of length n: without the first
\* character ('{' or '%') and, for a block, without the closing '}'
BlockCaptured(block, s, n) == SubSeq(block, s + 2, s + n - 1)

TagCaptured(block, s, n) == SubSeq(block, s + 2, s + n)

-----------------------------------------------------------------------------
(* OrganizeFormat::ParseBlock: the pieces of one loop iteration            *)

\* the activation record of a ParseBlock call: its block, its scan position,
\* the loop it is in, its local empty, and the length of the block match
\* whose recursive call it is waiting for
NewFrame(block) ==
    [block |-> block, pos |-> 0, phase |-> "blocks", empty |-> FALSE, mlen |-> 0]

\* a scan position that stays at the start of the match
AdvancePosStay(start, value) == start

\* pos = re_match.capturedStart(); ...; pos += value.length();
AdvancePos(start, value) == start + Len(value)

\* a caller that keeps the value of a block with an empty tag
SectionValueKeep(value, empty) == value

\* if (empty) value = QLatin1String("");
SectionValue(value, empty) == IF empty THEN <<>> ELSE value

\* a unique-tag test that reads the title only
SetsTagDataTitleOnly(tag, value) == value # <<>> /\ tag = t_title

\* else if (have_tagdata && kUniqueTags.contains(tag)), reached when the
\* value is not empty; have_tagdata is &unique_filename in every call
SetsTagData(tag, value) == value # <<>> /\ tag \in kUniqueTags

\* the tag loop run to its end on block from pos: the text it leaves
RECURSIVE ReplaceTags(_, _)
ReplaceTags(block, pos) ==
    IF TagMatchStarts(block, pos) = {} THEN block
    ELSE LET s     == Min(TagMatchStarts(block, pos))
             n     == TagMatchLength(block, s)
             value == TagValue(TagCaptured(block, s, n), song)
         IN  ReplaceTags(replace(block, s, n, value), AdvancePos(s, value))

Top == stack[Len(stack)]

SetTop(frame) == [stack EXCEPT ![Len(stack)] = frame]

DefaultResult == [filename |-> <<>>, unique_filename |-> FALSE]

-----------------------------------------------------------------------------
(* The steps of GetFilenameForSong and ParseBlock                          *)

\* GetFilenameForSong: unique_filename = false; ParseBlock(format_, song,
\* &unique_filename) is entered
CallParseBlock ==
    /\ pc = "start"
    /\ pc' = "parse"
    /\ unique_filename' = FALSE
    /\ stack' = <<NewFrame(format_)>>
    /\ UNCHANGED <<format_, config, song, extension, filepath, result, lookups, candidate>>

\* block loop, a match: pos = capturedStart, and ParseBlock is called on
\* captured(1)
BlockIteration ==
    /\ pc = "parse"
    /\ Top.phase = "blocks"
    /\ BlockMatchStarts(Top.block, Top.pos) # {}
    /\ LET s == Min(BlockMatchStarts(Top.block, Top.pos))
           n == BlockMatchLength(Top.block, s)
       IN  stack' = Append(SetTop([Top EXCEPT !.pos = s, !.mlen = n]),
                           NewFrame(BlockCaptured(Top.block, s, n)))
    /\ UNCHANGED <<format_, config, song, extension, pc, unique_filename,
                   filepath, result, lookups, candidate>>

\* block loop, no match: bool empty = false; pos = 0; the tag loop starts
BlockLoopExit ==
    /\ pc = "parse"
    /\ Top.phase = "blocks"
    /\ BlockMatchStarts(Top.block, Top.pos) = {}
    /\ stack' = SetTop([Top EXCEPT !.phase = "tags", !.pos = 0, !.empty = FALSE])
    /\ UNCHANGED <<format_, config, song, extension, pc, unique_filename,
                   filepath, result, lookups, candidate>>

\* tag loop, a match: the tag's value replaces it
TagIteration ==
    /\ pc = "parse"
    /\ Top.phase = "tags"
    /\ TagMatchStarts(Top.block, Top.pos) # {}
    /\ LET s     == Min(TagMatchStarts(Top.block, Top.pos))
           n     == TagMatchLength(Top.block, s)
           tag   == TagCaptured(Top.block, s, n)
           value == TagValue(tag, song)
       IN  /\ stack' = SetTop([Top EXCEPT
                                 !.empty = (Top.empty \/ value = <<>>),
                                 !.block = replace(Top.block, s, n, value),
                                 !.pos = AdvancePos(s, value)])
           /\ unique_filename' = (unique_filename \/ SetsTagData(tag, value))
           /\ lookups' = Append(lookups, <<tag, value>>)
    /\ UNCHANGED <<format_, config, song, extension, pc, filepath, result,
                   candidate>>

\* tag loop, no match, in a recursive call: *any_empty = empty; return block;
\* the caller replaces the block's match by the value and moves on
ReturnToBlockLoop ==
    /\ pc = "parse"
    /\ Top.phase = "tags"
    /\ TagMatchStarts(Top.block, Top.pos) = {}
    /\ Len(stack) > 1
    /\ LET caller == stack[Len(stack) - 1]
           value  == SectionValue(Top.block, Top.empty)
       IN  stack' = [SubSeq(stack, 1, Len(stack) - 1) EXCEPT ![Len(stack) - 1] =
                        [caller EXCEPT
                           !.block = replace(caller.block, caller.pos, caller.mlen, value),
                           !.pos = AdvancePos(caller.pos, value),
                           !.mlen = 0]]
    /\ UNCHANGED <<format_, config, song, extension, pc, unique_filename,
                   filepath, result, lookups, candidate>>

\* tag loop, no match, in the outermost call (any_empty is null): the block
\* is GetFilenameForSong's filepath
ReturnToGetFilename ==
    /\ pc = "parse"
    /\ Top.phase = "tags"
    /\ TagMatchStarts(Top.block, Top.pos) = {}
    /\ Len(stack) = 1
    /\ filepath' = Top.block
    /\ stack' = <<>>
    /\ pc' = "parsed"
    /\ UNCHANGED <<format_, config, song, extension, unique_filename, result, lookups, candidate>>

-----------------------------------------------------------------------------
(* OrganizeFormat::GetFilenameForSong: what follows ParseBlock             *)

\* lines 94-113: an empty filepath becomes the song's base file name; a
\* filepath without a base name keeps its directory and gets the song's
\* base file name
FallbackFilename(fp, s) ==
    LET named == IF fp = <<>> THEN s.basefilename ELSE fp
        path  == QFileInfo_path(named)
        dir   == IF path = <<>> THEN <<>>
                 ELSE IF path[Len(path)] # "/" THEN path \o <<"/">>
                 ELSE path
    IN  IF QFileInfo_completeBaseName(named) = <<>>
        THEN dir \o s.basefilename
        ELSE named

\* line 115: the condition under which the default result is returned
IsRejected(fp) ==
    \/ fp = <<>>
    \/ /\ contains(fp, "/")
       /\ \/ section_0_m2(fp, "/") = <<>>
          \/ section_0_m2(fp, "/") = <<>>

\* lines 129-146: a character at or above the threshold is replaced by the
\* first character of its decomposition when that is below the threshold,
\* and is dropped otherwise
RECURSIVE StripNonAscii(_, _)
StripNonAscii(s, ascii) ==
    IF s = <<>> THEN <<>>
    ELSE LET c == Head(s)
             d == decomposition(c)
         IN  (IF unicode(c) < ascii THEN <<c>>
              ELSE IF d # <<>> /\ unicode(d[1]) < ascii THEN <<d[1]>>
              ELSE <<>>)
             \o StripNonAscii(Tail(s), ascii)

\* lines 119-149: the character removals and simplified()
RemoveCharacters(fp) ==
    LET a == IF remove_problematic_
             THEN SelectSeq(fp, LAMBDA ch : ~IsProblematicCharacter(ch)) ELSE fp
        b == IF remove_non_fat_ \/ (remove_non_ascii_ /\ ~allow_ascii_ext_)
             THEN Transliterate(a) ELSE a
        c == IF remove_non_fat_
             THEN SelectSeq(b, LAMBDA ch : ~IsInvalidFatCharacter(ch)) ELSE b
        d == IF remove_non_ascii_
             THEN StripNonAscii(c, IF allow_ascii_ext_ THEN 255 ELSE 128) ELSE c
    IN  simplified(d)

\* lines 154-161: the extension that will be appended
FixupExtension(ext, fp, s) ==
    IF ext = <<>>
    THEN IF QFileInfo_suffix(fp) = <<>> THEN QFileInfo_suffix(s.url)
         ELSE QFileInfo_suffix(fp)
    ELSE ext

\* lines 162-166: the path and the complete base name, without the suffix
WithoutSuffix(fp) ==
    (IF QFileInfo_path(fp) # <<>> /\ QFileInfo_path(fp) # <<".">>
     THEN QFileInfo_path(fp) \o <<"/">> ELSE <<>>)
    \o QFileInfo_completeBaseName(fp)

\* lines 173-178: the first invalid prefix character found at the start of
\* the part is removed, once
StripInvalidPrefix(part) ==
    IF part # <<>> /\ part[1] \in Range(kInvalidPrefixCharacters)
    THEN Tail(part) ELSE part

\* lines 169-182
FixPrefixes(fp) ==
    LET parts_old == split(fp, "/")
        parts_new == [i \in 1..Len(parts_old) |->
                         trimmed(StripInvalidPrefix(parts_old[i]))]
    IN  join(parts_new, "/")

\* lines 184-191
FinishPath(fp, ext) ==
    (IF replace_spaces_ THEN ReplaceSpaces(fp) ELSE fp)
    \o (IF ext # <<>> THEN <<".">> \o ext ELSE <<>>)

\* lines 151-191 on a filepath cleaned by RemoveCharacters
FixupPath(fp, ext, s) ==
    FinishPath(FixPrefixes(WithoutSuffix(fp)), FixupExtension(ext, fp, s))

\* lines 119-191: the sanitization stages, from a candidate path to the
\* returned filename
SanitizeStages(fp, ext, s) == FixupPath(RemoveCharacters(fp), ext, s)

\* if (filepath.isEmpty()) ... { QFileInfo fileinfo(filepath); ... }
FallbackStep ==
    /\ pc = "parsed"
    /\ filepath' = FallbackFilename(filepath, song)
    /\ candidate' = filepath'
    /\ pc' = "check"
    /\ UNCHANGED <<format_, config, song, extension, stack, unique_filename,
                   result, lookups>>

\* return GetFilenameForSongResult();
RejectStep ==
    /\ pc = "check"
    /\ IsRejected(filepath)
    /\ result' = DefaultResult
    /\ pc' = "rejected"
    /\ UNCHANGED <<format_, config, song, extension, stack, unique_filename,
                   filepath, lookups, candidate>>

\* the character removals and simplified()
RemoveCharactersStep ==
    /\ pc = "check"
    /\ ~IsRejected(filepath)
    /\ filepath' = RemoveCharacters(filepath)
    /\ pc' = "fixup"
    /\ UNCHANGED <<format_, config, song, extension, stack, unique_filename,
                   result, lookups, candidate>>

\* the extension fixup, the prefix fix, the space replacement and
\* return GetFilenameForSongResult(filepath, unique_filename);
FixupStep ==
    /\ pc = "fixup"
    /\ filepath' = FixupPath(filepath, extension, song)
    /\ result' = [filename |-> filepath', unique_filename |-> unique_filename]
    /\ pc' = "done"
    /\ UNCHANGED <<format_, config, song, extension, stack, unique_filename,
                   lookups, candidate>>

-----------------------------------------------------------------------------
(* Inputs                                                                  *)

\* a default-constructed Song: no text, the numbers unset
DefaultSong ==
    [title |-> <<>>, album |-> <<>>, artist |-> <<>>, composer |-> <<>>,
     performer |-> <<>>, grouping |-> <<>>, lyrics |-> <<>>, genre |-> <<>>,
     comment |-> <<>>, year |-> -1, effective_originalyear |-> -1,
     track |-> -1, disc |-> -1, length_nanosec |-> -1, bitrate |-> -1,
     samplerate |-> -1, bitdepth |-> -1, url |-> <<>>,
     effective_albumartist |-> <<>>, is_compilation |-> FALSE,
     basefilename |-> <<>>]

SongFile == <<"s", ".", "m", "p", "3">>

\* title T, artist A, album X, track 7, year 0, no composer
SongPlain ==
    [DefaultSong EXCEPT !.title = <<"T">>, !.artist = <<"A">>, !.album = <<"X">>,
                        !.effective_albumartist = <<"A">>,
                        !.track = 7, !.year = 0,
                        !.url = <<"/", "m", "/">> \o SongFile,
                        !.basefilename = SongFile]

\* a title that reads like a tag, and a year
SongPercent ==
    [SongPlain EXCEPT !.title = <<"%">> \o t_artist, !.year = 12, !.track = 12]

\* a title that reads like a block, no year, an artist that reads like the
\* title tag
SongBraces ==
    [SongPlain EXCEPT !.title = <<"{", "a", "}">>, !.year = -1,
                      !.artist = <<"%">> \o t_title]

\* no title, a track and a year; not a local file, so no base file name
SongUntitled ==
    [SongPlain EXCEPT !.title = <<>>, !.track = 7, !.year = 12,
                      !.url = <<>>, !.basefilename = <<>>]

ParseSongs == {SongPlain, SongPercent, SongBraces, SongUntitled}

MaxTokens == 4

RECURSIVE Flatten(_)
Flatten(ts) == IF ts = <<>> THEN <<>> ELSE Head(ts) \o Flatten(Tail(ts))

\* the format strings made of at most n of the tokens
Formats(tokens, n) ==
    {Flatten(ts) : ts \in UNION {[1..k -> tokens] : k \in 0..n}}

ParseTokens ==
    {<<"{">>, <<"}">>, <<"%">> \o t_title, <<"%">> \o t_year, <<"%">>, <<"a">>}

\* "{%album ({%year})}"
NestedFormat ==
    <<"{", "%">> \o t_album \o <<" ", "(", "{", "%">> \o t_year \o <<"}", ")", "}">>

\* "%artist - {%composer - }%title"
CollapseFormat ==
    <<"%">> \o t_artist \o <<" ", "-", " ", "{", "%">> \o t_composer
    \o <<" ", "-", " ", "}", "%">> \o t_title

\* "{%track %artist}{%composer %title}/{%artist}"
TrackFormat ==
    <<"{", "%">> \o t_track \o <<" ", "%">> \o t_artist \o <<"}", "{", "%">>
    \o t_composer \o <<" ", "%">> \o t_title \o <<"}", "/", "{", "%">>
    \o t_artist \o <<"}">>

ParseFormats ==
    Formats(ParseTokens, MaxTokens) \cup {NestedFormat, CollapseFormat, TrackFormat}

\* the state a constructed OrganizeFormat is in when GetFilenameForSong is
\* called on it without an extension
InitParse ==
    /\ format_ \in ParseFormats
    /\ remove_problematic_ = FALSE
    /\ remove_non_fat_ = FALSE
    /\ remove_non_ascii_ = FALSE
    /\ allow_ascii_ext_ = FALSE
    /\ replace_spaces_ = TRUE
    /\ song \in ParseSongs
    /\ extension = <<>>
    /\ pc = "start"
    /\ stack = <<>>
    /\ unique_filename = FALSE
    /\ filepath = <<>>
    /\ result = DefaultResult
    /\ lookups = <<>>
    /\ candidate = <<>>

-----------------------------------------------------------------------------
(* Inputs of the path stages                                               *)

\* a title of two words
SongSpaced == [SongPlain EXCEPT !.title = <<"b", " ", "c">>]

\* a title outside Latin-1, a source file without a suffix
SongWide ==
    [SongPlain EXCEPT !.title = <<"U+4E2D">>, !.artist = <<"U+00E9">>,
                      !.url = <<"/", "m", "/", "s">>,
                      !.basefilename = <<"s">>]

MaxPathTokens == 3

PathTokens == {<<".">>, <<"/">>, <<" ">>, <<"a">>, <<"%">> \o t_title}

\* "/a/%title"
RootedFormat == <<"/", "a", "/", "%">> \o t_title

\* "../%title"
DotDotFormat == <<".", ".", "/", "%">> \o t_title

\* "a./%title"
DotEndFormat == <<"a", ".", "/", "%">> \o t_title

\* "%artist/%track. %title"
NumberedFormat ==
    <<"%">> \o t_artist \o <<"/", "%">> \o t_track \o <<".", " ", "%">> \o t_title

PathFormats ==
    Formats(PathTokens, MaxPathTokens)
    \cup {RootedFormat, DotDotFormat, DotEndFormat, NumberedFormat, CollapseFormat}

\* a song that is not a local file: no base file name
SongNoFile == [SongPlain EXCEPT !.url = <<>>, !.basefilename = <<>>]

PathSongs == {SongPlain, SongSpaced, SongWide, SongNoFile}

Extensions == {<<>>, <<"o", "g", "g">>}

\* the state a configured OrganizeFormat is in when GetFilenameForSong is
\* called on it
Init ==
    /\ format_ \in PathFormats
    /\ remove_problematic_ \in BOOLEAN
    /\ remove_non_fat_ \in BOOLEAN
    /\ remove_non_ascii_ \in BOOLEAN
    /\ allow_ascii_ext_ \in BOOLEAN
    /\ replace_spaces_ \in BOOLEAN
    /\ song \in PathSongs
    /\ extension \in Extensions
    /\ pc = "start"
    /\ stack = <<>>
    /\ unique_filename = FALSE
    /\ filepath = <<>>
    /\ result = DefaultResult
    /\ lookups = <<>>
    /\ candidate = <<>>

Next ==
    \/ CallParseBlock
    \/ BlockIteration
    \/ BlockLoopExit
    \/ TagIteration
    \/ ReturnToBlockLoop
    \/ ReturnToGetFilename
    \/ FallbackStep
    \/ RejectStep
    \/ RemoveCharactersStep
    \/ FixupStep

Spec == Init /\ [][Next]_vars

SpecParse == InitParse /\ [][Next]_vars

-----------------------------------------------------------------------------
(* Properties of ParseBlock, checked under SpecParse                       *)

HasBrace(s) == contains(s, "{") \/ contains(s, "}")

\* the 1-based index of the first brace of s, 0 if none
FirstBrace(s) ==
    LET at == {i \in 1..Len(s) : s[i] \in {"{", "}"}}
    IN  IF at = {} THEN 0 ELSE Min(at)

\* every '{' opens a block with a body of at least one character, every '}'
\* closes one, and the depth of the blocks is at most maxdepth
RECURSIVE WellFormed(_, _, _)
WellFormed(f, depth, maxdepth) ==
    LET k == FirstBrace(f)
    IN  IF k = 0 THEN depth = 0
        ELSE IF f[k] = "{"
             THEN /\ depth < maxdepth
                  /\ k < Len(f)
                  /\ f[k + 1] # "}"
                  /\ WellFormed(SubSeq(f, k + 1, Len(f)), depth + 1, maxdepth)
             ELSE /\ depth > 0
                  /\ WellFormed(SubSeq(f, k + 1, Len(f)), depth - 1, maxdepth)

\* the optional sections of f are well formed and none is inside another
NonNested(f) == WellFormed(f, 0, 1)

\* the optional sections of f are well formed and one is inside another
Nested(f) == WellFormed(f, 0, 2) /\ ~WellFormed(f, 0, 1)

\* a placeholder of the section body resolves to the empty string
BodyHasEmptyTag(body) ==
    \E s \in TagMatchStarts(body, 0) :
        TagValue(TagCaptured(body, s, TagMatchLength(body, s)), song) = <<>>

\* a format without nested sections after the section pass, as the spec
\* describes it: a section with an empty placeholder is gone, any other
\* section is its rendered body
RECURSIVE ExpectedSections(_)
ExpectedSections(f) ==
    LET open  == FirstBrace(f)
        after == SubSeq(f, open + 1, Len(f))
        close == FirstBrace(after)
        body  == SubSeq(after, 1, close - 1)
    IN  IF open = 0 THEN f
        ELSE SubSeq(f, 1, open - 1)
             \o (IF BodyHasEmptyTag(body) THEN <<>> ELSE ReplaceTags(body, 0))
             \o ExpectedSections(SubSeq(after, close + 1, Len(after)))

\* the outermost ParseBlock call has left the block loop and has not yet
\* looked for a tag
AtTagLoopStart ==
    /\ pc = "parse"
    /\ Len(stack) = 1
    /\ Top.phase = "tags"
    /\ Top.pos = 0
    /\ ~Top.empty

SongTextFields(s) == {s.title, s.album, s.artist, s.composer}

\* C1: nested optional sections are resolved inside-out until no section
\* remains: when a well-formed section encloses another one (and no field
\* value holds a brace), the text ParseBlock returns holds no brace, and
\* "{%album ({%year})}" with album X and year 0 gives "X ()".
C1_NestedSectionsResolved ==
    /\ (pc = "parsed" /\ Nested(format_)
            /\ (\A v \in SongTextFields(song) : ~HasBrace(v))
        => ~HasBrace(filepath))
    /\ (pc = "parsed" /\ format_ = NestedFormat /\ song = SongPlain
        => filepath = <<"X", " ", "(", ")">>)

\* C2: collapse property: for a format whose sections are well formed and
\* not nested, the block loop leaves the text outside the sections as it
\* is, replaces every section that holds a placeholder resolving to the
\* empty string by nothing, and every other section by its rendered body
\* without the braces; the returned text is the tag loop's rendering of
\* that text, so a collapsed section leaves the result as if it were absent;
\* "%artist - {%composer - }%title" with artist A, no composer and title T
\* gives "A - T".
C2_CollapseProperty ==
    /\ (AtTagLoopStart /\ NonNested(format_)
        => Top.block = ExpectedSections(format_))
    /\ (pc = "parsed" /\ NonNested(format_)
        => filepath = ReplaceTags(ExpectedSections(format_), 0))
    /\ (pc = "parsed" /\ format_ = CollapseFormat /\ song = SongPlain
        => filepath = <<"A", " ", "-", " ", "T">>)

\* C2 witness: the example format has been evaluated, its composer section
\* has collapsed
C2_Witness ==
    /\ pc = "parsed"
    /\ format_ = CollapseFormat
    /\ song = SongPlain
    /\ \E i \in 1..Len(lookups) : lookups[i] = <<t_composer, <<>>>>
    /\ filepath = <<"A", " ", "-", " ", "T">>

\* the text a ParseBlock call has still to scan
Remaining(frame) == Len(frame.block) - frame.pos

\* C8: ParseBlock terminates: a tag loop iteration strictly shrinks the text
\* that remains to be scanned; a block loop iteration finds its match at or
\* after the scan position and, once the recursive call has returned and the
\* value is substituted, has strictly shrunk the remaining text; whatever
\* the value substituted (empty, or holding '%', '{' or '}').
C8_LoopsShrink ==
    [][/\ (Len(stack') = Len(stack) /\ Len(stack) > 0
              /\ Top.phase = "tags" /\ Top'.phase = "tags"
           => Remaining(Top') < Remaining(Top))
       /\ (Len(stack) > 0 /\ Len(stack') = Len(stack) + 1
           => /\ stack'[Len(stack)].pos >= Top.pos
              /\ Remaining(stack'[Len(stack)]) <= Remaining(Top)
              /\ Len(Top'.block) < Len(Top.block))
       /\ (Len(stack') > 0 /\ Len(stack') = Len(stack) - 1
           => Remaining(Top') < Remaining(stack[Len(stack')]))]_vars

\* C8 witness: ParseBlock has returned after substituting a bare '%' (an
\* empty tag name, an empty value) and a value that holds a '%'
C8_Witness ==
    /\ pc = "parsed"
    /\ \E i \in 1..Len(lookups) : lookups[i] = <<<<>>, <<>>>>
    /\ \E i \in 1..Len(lookups) : contains(lookups[i][2], "%")

\* a title or track tag has been looked up with a non-empty value
SawUniqueTag ==
    \E i \in 1..Len(lookups) :
        /\ lookups[i][1] = t_title \/ lookups[i][1] = t_track
        /\ lookups[i][2] # <<>>

\* C9: the uniqueness flag is false when the evaluation starts, is at every
\* moment true exactly when a title or track placeholder has so far
\* resolved to a non-empty value at any nesting level (so it is never
\* cleared, also when the section of that placeholder collapses), and is
\* the flag of the returned result.
C9_UniqueFlag ==
    /\ (pc = "start" => ~unique_filename /\ lookups = <<>>)
    /\ (pc # "start" => unique_filename = SawUniqueTag)
    /\ (pc = "done" => result.unique_filename = SawUniqueTag)

\* C9 witness: a result whose flag is set by a title T that is not in the
\* returned name, its section having collapsed
C9_Witness ==
    /\ pc = "done"
    /\ result.unique_filename
    /\ \E i \in 1..Len(lookups) : lookups[i] = <<t_title, <<"T">>>>
    /\ \E i \in 1..Len(lookups) : lookups[i][2] = <<>>
    /\ ~contains(result.filename, "T")

\* the number of ch in s
Count(s, ch) == Cardinality({i \in 1..Len(s) : s[i] = ch})

\* C10: a field value is inserted verbatim and is never read as format
\* syntax: ParseBlock looks up one tag for each '%' of the format string
\* and no other, and "{%title}" with the title "%artist" gives "%artist".
C10_ValuesVerbatim ==
    /\ (pc = "parsed" => Len(lookups) = Count(format_, "%"))
    /\ (pc = "parsed" /\ format_ = <<"{", "%">> \o t_title \o <<"}">>
            /\ song = SongPercent
        => filepath = <<"%">> \o t_artist)

-----------------------------------------------------------------------------
(* Properties of GetFilenameForSong, checked under Spec                    *)

\* C3: a returned result is the default (rejected) result or has a
\* non-empty filename.
C3_NoEmptySuccess ==
    pc = "done" => result = DefaultResult \/ result.filename # <<>>

\* C4: with replace_spaces_ set, the filename of a returned result holds no
\* whitespace.
C4_NoWhitespace ==
    pc = "done" /\ replace_spaces_
    => \A i \in 1..Len(result.filename) : ~IsSpace(result.filename[i])

\* C5: the sanitization stages leave a filename they have produced, under
\* the same configuration, song and extension argument, unchanged.
C5_SanitizerIdempotent ==
    pc = "done"
    => SanitizeStages(result.filename, extension, song) = result.filename

\* C6: a candidate that is empty, or holds a '/' with nothing before the
\* last one, is rejected, and no returned filename begins with '/'.
C6_NoAbsolutePath ==
    /\ (pc = "fixup" \/ pc = "done"
        => /\ candidate # <<>>
           /\ contains(candidate, "/")
              => SubSeq(candidate, 1, LastIndexOf(candidate, "/") - 1) # <<>>)
    /\ (pc = "done" /\ result.filename # <<>> => result.filename[1] # "/")

\* C7: in a returned, non-empty filename no '/'-separated segment begins or
\* ends with a character of kInvalidPrefixCharacters.
C7_SegmentsClean ==
    pc = "done" /\ result.filename # <<>>
    => \A part \in Range(split(result.filename, "/")) :
          \/ part = <<>>
          \/ /\ part[1] \notin Range(kInvalidPrefixCharacters)
             /\ part[Len(part)] \notin Range(kInvalidPrefixCharacters)

====
